---- MODULE Spec2Model ----
(***************************************************************************)
(* The Bun sidecar supervisor of src-tauri/src/lib.rs: the shared          *)
(* SidecarState, the start / stop / restart commands, the setup hook with  *)
(* its health-check loop, the relay task of every spawned child and the    *)
(* RunEvent::Exit hook (kill_sidecar_sync), as concurrently scheduled      *)
(* tasks.  Every step is one critical section of the state mutex or one    *)
(* interaction with the outside (spawn, kill, HTTP GET, emit).             *)
(***************************************************************************)
EXTENDS Integers, Sequences, FiniteSets, TLC

\* ------------------------------------------------------------------ bounds

\* Number of command invocations (start / stop / restart) made by the frontend.
MaxCmds == 1

\* Number of stdout/stderr lines the children print, all together.
MaxOut == 2

\* ------------------------------------------------------- program constants

max_attempts == 30

U16_MAX == 65535

\* Option::None for pid and port.
None == -1

\* ------------------------------------------------------------------- lines

\* A line is the sequence of its bytes, one token per byte.
Digits == <<"0", "1", "2", "3", "4", "5", "6", "7", "8", "9">>

IsDigit(ch) == \E i \in 1..10 : Digits[i] = ch

DigitVal(ch) == (CHOOSE i \in 1..10 : Digits[i] = ch) - 1

\* char::is_whitespace on the bytes the model uses.
IsWhitespace(ch) == ch \in {" ", "\n", "\r", "\t"}

\* A byte that is not valid UTF-8 on its own.
InvalidByte == "0xFF"

\* String::from_utf8_lossy: invalid bytes become U+FFFD, the rest is kept.
from_utf8_lossy(bytes) ==
    [i \in 1..Len(bytes) |-> IF bytes[i] = InvalidByte THEN "U+FFFD" ELSE bytes[i]]

\* str::starts_with
starts_with(line, prefix) ==
    /\ Len(line) >= Len(prefix)
    /\ \A i \in 1..Len(prefix) : line[i] = prefix[i]

\* line[5..]
Skip5(line) == SubSeq(line, 6, Len(line))

RECURSIVE trim_start(_)
trim_start(s) ==
    IF s # <<>> /\ IsWhitespace(Head(s)) THEN trim_start(Tail(s)) ELSE s

RECURSIVE trim_end(_)
trim_end(s) ==
    IF s # <<>> /\ IsWhitespace(s[Len(s)])
    THEN trim_end(SubSeq(s, 1, Len(s) - 1))
    ELSE s

\* str::trim
trim(s) == trim_end(trim_start(s))

\* The digits of an unsigned parse, left to right, with the overflow check of
\* every step; None on a non-digit or on a value above u16::MAX.
RECURSIVE ParseDigits(_, _)
ParseDigits(s, acc) ==
    IF s = <<>> THEN acc
    ELSE IF ~IsDigit(Head(s)) THEN None
    ELSE LET v == acc * 10 + DigitVal(Head(s))
         IN  IF v > U16_MAX THEN None ELSE ParseDigits(Tail(s), v)

\* str::parse::<u16>: an optional leading "+", then at least one digit.
parse_u16(s) ==
    LET body == IF s # <<>> /\ Head(s) = "+" THEN Tail(s) ELSE s
    IN  IF body = <<>> THEN None ELSE ParseDigits(body, 0)

PORT_PREFIX == <<"P", "O", "R", "T", "=">>

\* The slice taken one byte early: "=<n>" never parses.
CapturedPort_SliceFrom4(line) ==
    IF starts_with(line, PORT_PREFIX)
    THEN parse_u16(trim(SubSeq(line, 5, Len(line))))
    ELSE None

\* A parse that wraps around at 16 bits where parse::<u16> reports overflow.
CapturedPort_Wrapping(line) ==
    LET body == trim(Skip5(line))
    IN  IF starts_with(line, PORT_PREFIX) /\ body # <<>>
           /\ \A i \in 1..Len(body) : IsDigit(body[i])
        THEN LET RECURSIVE Wrap(_, _)
                 Wrap(s, acc) ==
                     IF s = <<>> THEN acc
                     ELSE Wrap(Tail(s), (acc * 10 + DigitVal(Head(s))) % (U16_MAX + 1))
             IN  Wrap(body, 0)
        ELSE None

\* The port a stdout line announces (lines 262-263), None when it announces none.
CapturedPort(line) ==
    IF starts_with(line, PORT_PREFIX) THEN parse_u16(trim(Skip5(line))) ELSE None

\* The lines a child may print.
LinePort3000  == <<"P", "O", "R", "T", "=", "3", "0", "0", "0">>
LinePort8080  == <<"P", "O", "R", "T", "=", "8", "0", "8", "0", "\n">>
LinePort70000 == <<"P", "O", "R", "T", "=", "7", "0", "0", "0", "0">>

LinePortAbc   == <<"P", "O", "R", "T", "=", "a", "b", "c">>

StdoutLines == {LinePort3000, LinePort8080, LinePort70000, LinePortAbc}
StderrLines == {LinePort3000}

\* CommandEvent
Stdout(line) == [type |-> "Stdout", line |-> line]
Stderr(line) == [type |-> "Stderr", line |-> line]
Terminated   == [type |-> "Terminated", line |-> <<>>]

OutputEvents == {Stdout(l) : l \in StdoutLines} \cup {Stderr(l) : l \in StderrLines}

\* ------------------------------------------------------------------- state

\* Thread 0 is the task of the setup hook; 1..MaxCmds are command invocations.
SetupTask == 0
Threads == 0..MaxCmds
\* Every thread spawns at most one child; pids are handed out in spawn order.
Pids == 1..(MaxCmds + 1)

VARIABLES
    state,      \* Mutex<SidecarState>: [pid, port]
    nextPid,    \* the pid the next spawn gets
    alive,      \* alive[c]: "none" (not spawned), "alive", "dead"
    rx,         \* rx[c]: every CommandEvent the child's channel has carried
    rcv,        \* rcv[c]: how many of them the relay has finished handling
    rpc,        \* rpc[c]: relay task: "none", "recv", "emit", "clear", "end"
    relayed,    \* relayed[c]: the events the relay of c has emitted
    kind,       \* kind[t]: "setup", "idle", "start", "stop", "restart"
    pc,         \* pc[t]: position of the thread
    spid,       \* spid[t]: the local `pid` of stop_bun_sidecar
    lpid,       \* lpid[t]: the local `pid` of start_bun_sidecar_internal
    result,     \* result[t]: "none", "Ok", "OkNone", "Err"
    events,     \* events[t]: the events the thread has emitted
    signals,    \* signals[c]: the signals sent to pid c, see Signal
    attempts,   \* the health-check loop's counter
    ppc,        \* the health-check loop: "off", "loop", "get", "done"
    pport,      \* the port the loop read in this attempt
    resp,       \* the outcome of the last GET: "none", "ok", "fail"
    hpc,        \* kill_sidecar_sync: "idle", "term", "kill", "clear", "done"
    hpid,       \* the local `pid` of kill_sidecar_sync
    portLog     \* the ports the relays have stored, and the last write to state.port

vars == <<state, nextPid, alive, rx, rcv, rpc, relayed, kind, pc, spid, lpid,
          result, events, signals, attempts, ppc, pport, resp, hpc, hpid,
          portLog>>

childVars == <<alive, rx>>
relayVars == <<rcv, rpc, relayed>>
threadVars == <<kind, pc, spid, lpid, result, events>>
proberVars == <<attempts, ppc, pport, resp>>
hookVars == <<hpc, hpid>>

\* A write to state.port: the relay of child c stored p for its k-th event, or
\* cleared the port on Terminated (p = None); any other task writes as c = 0.
PortWrite(c, k, p) == [by |-> c, ev |-> k, port |-> p]

\* portLog after a relay has stored a port: .writes keeps every port a relay
\* has stored, .last is the last write to state.port, .others tells whether
\* state_changed has stood in for another task.
Stored(w) == [portLog EXCEPT !.writes = @ \cup {w}, !.last = w]

\* SidecarState::default and the setup hook's spawned task, about to start.
Init ==
    /\ state = [pid |-> None, port |-> None]
    /\ nextPid = 1
    /\ alive = [c \in Pids |-> "none"]
    /\ rx = [c \in Pids |-> <<>>]
    /\ rcv = [c \in Pids |-> 0]
    /\ rpc = [c \in Pids |-> "none"]
    /\ relayed = [c \in Pids |-> <<>>]
    /\ kind = [t \in Threads |-> IF t = SetupTask THEN "setup" ELSE "idle"]
    /\ pc = [t \in Threads |-> IF t = SetupTask THEN "spawn" ELSE "idle"]
    /\ spid = [t \in Threads |-> None]
    /\ lpid = [t \in Threads |-> None]
    /\ result = [t \in Threads |-> "none"]
    /\ events = [t \in Threads |-> <<>>]
    /\ signals = [c \in Pids |-> <<>>]
    /\ attempts = 0
    /\ ppc = "off"
    /\ pport = None
    /\ resp = "none"
    /\ hpc = "idle"
    /\ hpid = None
    /\ portLog = [writes |-> {}, last |-> PortWrite(0, 0, None), others |-> FALSE]

\* The process is gone once the exit hook has returned: no task runs any more.
Running == hpc # "done"


\* An emitted event: its name, the text it carries (a line) and the port it
\* carries (sidecar-ready).
Event(name, text, port) == [name |-> name, text |-> text, port |-> port]

\* A process that gets SIGKILL, or exits by itself, is gone and its channel
\* carries CommandEvent::Terminated; a pid that is not running is unaffected.
\* The exit hook as a sender of signals, next to the threads.
HookTask == MaxCmds + 1

\* One run of `kill -<sig> <pid>` by thread or hook `by`; it reaches a
\* process only when one with that pid is alive (otherwise kill exits
\* non-zero, which no caller looks at).
Signal(sig, by, c) == [sig |-> sig, by |-> by, delivered |-> alive[c] = "alive"]

AliveAfterExit(c) == [alive EXCEPT ![c] = "dead"]
RxAfterExit(c) == [rx EXCEPT ![c] = Append(@, Terminated)]

\* ----------------------------------------------- start_bun_sidecar_internal

\* A start that resets the shared state when it fails.
start_spawn_ResetsOnFailure(t) ==
    /\ Running
    /\ pc[t] = "spawn"
    /\ \/ /\ result' = [result EXCEPT ![t] = "Err"]
          /\ pc' = [pc EXCEPT ![t] = "done"]
          /\ events' = [events EXCEPT ![t] =
                IF kind[t] = "setup"
                THEN Append(@, Event("sidecar-error", <<>>, None))
                ELSE @]
          /\ state' = [pid |-> None, port |-> None]
          /\ UNCHANGED <<nextPid, alive, lpid>>
       \/ /\ alive' = [alive EXCEPT ![nextPid] = "alive"]
          /\ lpid' = [lpid EXCEPT ![t] = nextPid]
          /\ nextPid' = nextPid + 1
          /\ pc' = [pc EXCEPT ![t] = "register"]
          /\ UNCHANGED <<state, result, events>>
    /\ UNCHANGED <<rx, relayVars, kind, spid, signals, proberVars,
                   hookVars, portLog>>

\* Lines 164-241: the directories are created and the sidecar is spawned, or
\* one of them fails and the error is returned (the setup hook emits it).
start_spawn(t) ==
    /\ Running
    /\ pc[t] = "spawn"
    /\ \/ /\ result' = [result EXCEPT ![t] = "Err"]
          /\ pc' = [pc EXCEPT ![t] = "done"]
          /\ events' = [events EXCEPT ![t] =
                IF kind[t] = "setup"
                THEN Append(@, Event("sidecar-error", <<>>, None))
                ELSE @]
          /\ UNCHANGED <<nextPid, alive, lpid>>
       \/ /\ alive' = [alive EXCEPT ![nextPid] = "alive"]
          /\ lpid' = [lpid EXCEPT ![t] = nextPid]
          /\ nextPid' = nextPid + 1
          /\ pc' = [pc EXCEPT ![t] = "register"]
          /\ UNCHANGED <<result, events>>
    /\ UNCHANGED <<state, rx, relayVars, kind, spid, signals, proberVars,
                   hookVars, portLog>>

\* Lines 243-255: the pid is stored in the state and the relay task is handed
\* to the runtime (the hand-over touches nothing shared: the task runs from
\* now on, whenever the runtime schedules it).
start_register(t) ==
    /\ Running
    /\ pc[t] = "register"
    /\ state' = [state EXCEPT !.pid = lpid[t]]
    /\ rpc' = [rpc EXCEPT ![lpid[t]] = "recv"]
    /\ pc' = [pc EXCEPT ![t] = "ret"]
    /\ UNCHANGED <<nextPid, childVars, rcv, relayed, kind, spid, lpid, result,
                   events, signals, proberVars, hookVars, portLog>>

\* Line 297: Ok is returned; in the setup hook the health-check loop follows
\* (lines 452-457), a command returns to the frontend.
start_return(t) ==
    /\ Running
    /\ pc[t] = "ret"
    /\ result' = [result EXCEPT ![t] = "Ok"]
    /\ pc' = [pc EXCEPT ![t] = "done"]
    /\ IF kind[t] = "setup"
       THEN /\ ppc' = "loop"
            /\ attempts' = 0
       ELSE UNCHANGED <<ppc, attempts>>
    /\ UNCHANGED <<state, nextPid, childVars, relayVars, kind, spid, lpid,
                   events, signals, pport, resp, hookVars, portLog>>

\* ------------------------------------------------------------ the commands

Commands == {"start", "stop", "restart"}

\* The frontend invokes start_bun_sidecar, stop_bun_sidecar or
\* restart_bun_sidecar; each invocation is a task of its own.
invoke(t, k) ==
    /\ Running
    /\ t # SetupTask
    /\ pc[t] = "idle"
    /\ kind' = [kind EXCEPT ![t] = k]
    /\ pc' = [pc EXCEPT ![t] = IF k = "start" THEN "spawn" ELSE "read"]
    /\ UNCHANGED <<state, nextPid, childVars, relayVars, spid, lpid, result,
                   events, signals, proberVars, hookVars, portLog>>

\* What follows a stop that returned Ok(text): stop_bun_sidecar returns it;
\* restart_bun_sidecar emits it (line 355) and sleeps.
AfterStopOk(t, res, text) ==
    IF kind[t] = "restart"
    THEN /\ events' = [events EXCEPT ![t] =
                Append(@, Event("bun-sidecar-output", text, None))]
         /\ pc' = [pc EXCEPT ![t] = "sleep"]
         /\ UNCHANGED result
    ELSE /\ result' = [result EXCEPT ![t] = res]
         /\ pc' = [pc EXCEPT ![t] = "done"]
         /\ UNCHANGED events

\* A stop that treats "no pid recorded" as a failure.
stop_read_ErrWhenNone(t) ==
    /\ Running
    /\ pc[t] = "read"
    /\ spid' = [spid EXCEPT ![t] = state.pid]
    /\ IF state.pid = None
       THEN /\ result' = [result EXCEPT ![t] = "Err"]
            /\ pc' = [pc EXCEPT ![t] = "done"]
       ELSE /\ pc' = [pc EXCEPT ![t] = "kill"]
            /\ UNCHANGED result
    /\ UNCHANGED <<state, nextPid, childVars, relayVars, kind, lpid, events,
                   signals, proberVars, hookVars, portLog>>

\* Lines 310-316 and 346: the pid is read under the lock.
stop_read(t) ==
    /\ Running
    /\ pc[t] = "read"
    /\ spid' = [spid EXCEPT ![t] = state.pid]
    /\ IF state.pid = None
       THEN AfterStopOk(t, "OkNone", <<"No sidecar running">>)
       ELSE /\ pc' = [pc EXCEPT ![t] = "kill"]
            /\ UNCHANGED <<result, events>>
    /\ UNCHANGED <<state, nextPid, childVars, relayVars, kind, lpid, signals,
                   proberVars, hookVars, portLog>>

\* A stop that signals like the exit hook does: SIGTERM, then SIGKILL.
stop_kill_TermThenKill(t) ==
    /\ Running
    /\ pc[t] = "kill"
    /\ signals' = [signals EXCEPT
                   ![spid[t]] = Append(Append(@, Signal("TERM", t, spid[t])),
                                       Signal("KILL", t, spid[t]))]
    /\ IF alive[spid[t]] = "alive"
       THEN /\ alive' = AliveAfterExit(spid[t])
            /\ rx' = RxAfterExit(spid[t])
       ELSE UNCHANGED <<alive, rx>>
    /\ pc' = [pc EXCEPT ![t] = "clear"]
    /\ UNCHANGED <<state, nextPid, relayVars, kind, spid, lpid, result, events,
                   proberVars, hookVars, portLog>>

\* Lines 319-326: `kill -9 pid` is run; when the command cannot be run the
\* error is returned (by `?`, also out of restart_bun_sidecar).
stop_kill(t) ==
    /\ Running
    /\ pc[t] = "kill"
    /\ \/ /\ result' = [result EXCEPT ![t] = "Err"]
          /\ pc' = [pc EXCEPT ![t] = "done"]
          /\ UNCHANGED <<alive, rx, signals>>
       \/ /\ signals' = [signals EXCEPT
                         ![spid[t]] = Append(@, Signal("KILL", t, spid[t]))]
          /\ IF alive[spid[t]] = "alive"
             THEN /\ alive' = AliveAfterExit(spid[t])
                  /\ rx' = RxAfterExit(spid[t])
             ELSE UNCHANGED <<alive, rx>>
          /\ pc' = [pc EXCEPT ![t] = "clear"]
          /\ UNCHANGED result
    /\ UNCHANGED <<state, nextPid, relayVars, kind, spid, lpid, events,
                   proberVars, hookVars, portLog>>

\* Lines 337-344: the pid is cleared and Ok is returned.
stop_clear(t) ==
    /\ Running
    /\ pc[t] = "clear"
    /\ state' = [state EXCEPT !.pid = None]
    /\ AfterStopOk(t, "Ok", <<"Sidecar stopped">>)
    /\ UNCHANGED <<nextPid, childVars, relayVars, kind, spid, lpid, signals,
                   proberVars, hookVars, portLog>>

\* Lines 358-361: the settle delay is over, start_bun_sidecar is called.
restart_sleep(t) ==
    /\ Running
    /\ pc[t] = "sleep"
    /\ pc' = [pc EXCEPT ![t] = "spawn"]
    /\ UNCHANGED <<state, nextPid, childVars, relayVars, kind, spid, lpid,
                   result, events, signals, proberVars, hookVars, portLog>>


\* --------------------------------------------------------------- the child

\* Lines of output the child has printed so far.
Printed(c) == Len(SelectSeq(rx[c], LAMBDA e : e.type # "Terminated"))

RECURSIVE PrintedUpTo(_)
PrintedUpTo(c) == IF c = 0 THEN 0 ELSE Printed(c) + PrintedUpTo(c - 1)

\* Lines of output all children have printed so far.
PrintedInAll == PrintedUpTo(MaxCmds + 1)

\* The running child prints a line on stdout or stderr.
child_output(c, ev) ==
    /\ Running
    /\ alive[c] = "alive"
    /\ PrintedInAll < MaxOut
    /\ rx' = [rx EXCEPT ![c] = Append(@, ev)]
    /\ UNCHANGED <<state, nextPid, alive, relayVars, threadVars, signals,
                   proberVars, hookVars, portLog>>

\* The running child exits by itself.
child_exit(c) ==
    /\ Running
    /\ alive[c] = "alive"
    /\ alive' = AliveAfterExit(c)
    /\ rx' = RxAfterExit(c)
    /\ UNCHANGED <<state, nextPid, relayVars, threadVars, signals, proberVars,
                   hookVars, portLog>>

\* --------------------------------------------------------- the relay task

\* Lines 256-293: the relay takes the next event of the channel.  A stdout
\* line that announces a port stores it (lines 262-271) and is emitted in the
\* next step; any other line is emitted; Terminated is emitted and the state
\* is cleared in the next step.
relay_recv(c) ==
    /\ Running
    /\ rpc[c] = "recv"
    /\ rcv[c] < Len(rx[c])
    /\ LET ev == rx[c][rcv[c] + 1]
           line == from_utf8_lossy(ev.line)
       IN  \/ /\ ev.type = "Stdout"
              /\ CapturedPort(line) # None
              /\ state' = [state EXCEPT !.port = CapturedPort(line)]
              /\ portLog' = Stored(PortWrite(c, rcv[c] + 1, CapturedPort(line)))
              /\ rpc' = [rpc EXCEPT ![c] = "emit"]
              /\ UNCHANGED <<rcv, relayed>>
           \/ /\ ev.type = "Stdout"
              /\ CapturedPort(line) = None
              /\ relayed' = [relayed EXCEPT ![c] =
                    Append(@, Event("bun-sidecar-output", line, None))]
              /\ rcv' = [rcv EXCEPT ![c] = @ + 1]
              /\ UNCHANGED <<state, portLog, rpc>>
           \/ /\ ev.type = "Stderr"
              /\ relayed' = [relayed EXCEPT ![c] =
                    Append(@, Event("bun-sidecar-error", line, None))]
              /\ rcv' = [rcv EXCEPT ![c] = @ + 1]
              /\ UNCHANGED <<state, portLog, rpc>>
           \/ /\ ev.type = "Terminated"
              /\ relayed' = [relayed EXCEPT ![c] =
                    Append(@, Event("bun-sidecar-exited", <<>>, None))]
              /\ rpc' = [rpc EXCEPT ![c] = "clear"]
              /\ UNCHANGED <<state, portLog, rcv>>
    /\ UNCHANGED <<nextPid, childVars, threadVars, signals, proberVars, hookVars>>

\* Line 278: the announcement line is emitted, after its port was stored.
relay_emit(c) ==
    /\ Running
    /\ rpc[c] = "emit"
    /\ relayed' = [relayed EXCEPT ![c] =
          Append(@, Event("bun-sidecar-output",
                          from_utf8_lossy(rx[c][rcv[c] + 1].line), None))]
    /\ rcv' = [rcv EXCEPT ![c] = @ + 1]
    /\ rpc' = [rpc EXCEPT ![c] = "recv"]
    /\ UNCHANGED <<state, nextPid, childVars, threadVars, signals, proberVars,
                   hookVars, portLog>>

\* Lines 286-290: pid and port are cleared; the channel is closed after
\* Terminated, so the task ends.
relay_clear(c) ==
    /\ Running
    /\ rpc[c] = "clear"
    /\ state' = [pid |-> None, port |-> None]
    /\ portLog' = [portLog EXCEPT !.last = PortWrite(c, rcv[c] + 1, None)]
    /\ rcv' = [rcv EXCEPT ![c] = @ + 1]
    /\ rpc' = [rpc EXCEPT ![c] = "end"]
    /\ UNCHANGED <<nextPid, childVars, relayed, threadVars, signals,
                   proberVars, hookVars>>

\* ------------------------------------------------------- kill_sidecar_sync

\* RunEvent::Exit, lines 366-372: the pid is read; without one the hook is done.
hook_read ==
    /\ hpc = "idle"
    /\ hpid' = state.pid
    /\ hpc' = IF state.pid = None THEN "done" ELSE "term"
    /\ UNCHANGED <<state, nextPid, childVars, relayVars, threadVars, signals,
                   proberVars, portLog>>

\* Lines 378-384: SIGTERM, its result dropped; the child exits on it or not.
hook_term ==
    /\ hpc = "term"
    /\ signals' = [signals EXCEPT
                   ![hpid] = Append(@, Signal("TERM", HookTask, hpid))]
    /\ \/ UNCHANGED <<alive, rx>>
       \/ /\ alive[hpid] = "alive"
          /\ alive' = AliveAfterExit(hpid)
          /\ rx' = RxAfterExit(hpid)
    /\ hpc' = "kill"
    /\ UNCHANGED <<state, nextPid, relayVars, threadVars, proberVars, hpid,
                   portLog>>

\* Lines 387-390: SIGKILL after the grace delay, its result dropped.
hook_kill ==
    /\ hpc = "kill"
    /\ signals' = [signals EXCEPT
                   ![hpid] = Append(@, Signal("KILL", HookTask, hpid))]
    /\ IF alive[hpid] = "alive"
       THEN /\ alive' = AliveAfterExit(hpid)
            /\ rx' = RxAfterExit(hpid)
       ELSE UNCHANGED <<alive, rx>>
    /\ hpc' = "clear"
    /\ UNCHANGED <<state, nextPid, relayVars, threadVars, proberVars, hpid,
                   portLog>>

\* The clearing of stop_bun_sidecar (pid only) in the place of lines 404-408.
hook_clear_PidOnly ==
    /\ hpc = "clear"
    /\ state' = [state EXCEPT !.pid = None]
    /\ hpc' = "done"
    /\ UNCHANGED <<nextPid, childVars, relayVars, threadVars, signals,
                   proberVars, hpid, portLog>>

\* Lines 404-408: the state is cleared and the hook returns.
hook_clear ==
    /\ hpc = "clear"
    /\ state' = [pid |-> None, port |-> None]
    /\ portLog' = [portLog EXCEPT !.last = PortWrite(0, 0, None)]
    /\ hpc' = "done"
    /\ UNCHANGED <<nextPid, childVars, relayVars, threadVars, signals,
                   proberVars, hpid>>

\* ------------------------------------------------------- get_sidecar_port

\* Lines 130-137: the command returns the port field as it is, under the lock.
get_sidecar_port == state.port

\* --------------------------------------------- the setup health-check loop

\* The budget compared with > : one attempt too many.
PortNoneBranch_OffByOne(n) == IF n > max_attempts THEN "error" ELSE "sleep"

\* Lines 490-498: no port in the state in this attempt.
PortNoneBranch(n) == IF n >= max_attempts THEN "error" ELSE "sleep"

\* The budget checked before the response: a success on the last attempt is lost.
HealthBranch_BudgetFirst(r, n) ==
    IF n >= max_attempts THEN "error"
    ELSE IF r = "ok" THEN "ready" ELSE "sleep"

\* The budget compared with > : one attempt too many.
HealthBranch_OffByOne(r, n) ==
    IF r = "ok" THEN "ready"
    ELSE IF n > max_attempts THEN "error" ELSE "sleep"

\* Lines 473-488: the response of the GET in this attempt.
HealthBranch(r, n) ==
    IF r = "ok" THEN "ready"
    ELSE IF n >= max_attempts THEN "error" ELSE "sleep"

\* The loop after a branch: an event and the end, or the sleep and the next turn.
AfterBranch(b, p) ==
    /\ events' = [events EXCEPT ![SetupTask] =
          CASE b = "ready" -> Append(@, Event("sidecar-ready", <<>>, p))
            [] b = "error" -> Append(@, Event("sidecar-error", <<>>, None))
            [] OTHER -> @]
    /\ ppc' = IF b = "sleep" THEN "loop" ELSE "done"

\* Lines 460-469 and 490-498: the attempt is counted and the port is read.
health_read ==
    /\ Running
    /\ ppc = "loop"
    /\ attempts' = attempts + 1
    /\ pport' = state.port
    /\ IF state.port = None
       THEN AfterBranch(PortNoneBranch(attempts + 1), None)
       ELSE /\ ppc' = "get"
            /\ UNCHANGED events
    /\ UNCHANGED <<state, nextPid, childVars, relayVars, kind, pc, spid, lpid,
                   result, signals, resp, hookVars, portLog>>

\* A loop that gives the sidecar up when the budget is spent: it clears the
\* recorded pid and port before emitting the failure.
health_get_ClearsOnTimeout ==
    /\ Running
    /\ ppc = "get"
    /\ \E r \in {"ok", "fail"} :
          /\ resp' = r
          /\ AfterBranch(HealthBranch(r, attempts), pport)
          /\ state' = IF HealthBranch(r, attempts) = "error"
                      THEN [pid |-> None, port |-> None]
                      ELSE state
    /\ UNCHANGED <<nextPid, childVars, relayVars, kind, pc, spid, lpid,
                   result, signals, attempts, pport, hookVars, portLog>>

\* Lines 472-488: the GET returns a success status or anything else.
health_get ==
    /\ Running
    /\ ppc = "get"
    /\ \E r \in {"ok", "fail"} :
          /\ resp' = r
          /\ AfterBranch(HealthBranch(r, attempts), pport)
    /\ UNCHANGED <<state, nextPid, childVars, relayVars, kind, pc, spid, lpid,
                   result, signals, attempts, pport, hookVars, portLog>>

\* --------------------------------------------------------- specifications

\* The ports a child of the model can announce.
Ports == {CapturedPort(l) : l \in StdoutLines} \ {None}

\* The lifecycle: the setup start, the commands, the children, their relay
\* tasks and the exit hook, in every interleaving.  The health-check loop
\* writes nothing the other tasks read (it reads state.port and emits its own
\* events), so it is left out here and checked under ProbeSpec.
Next ==
    \/ \E t \in Threads : start_spawn(t)
    \/ \E t \in Threads : start_register(t)
    \/ \E t \in Threads : start_return(t)
    \/ \E t \in Threads, k \in Commands : invoke(t, k)
    \/ \E t \in Threads : stop_read(t)
    \/ \E t \in Threads : stop_kill(t)
    \/ \E t \in Threads : stop_clear(t)
    \/ \E t \in Threads : restart_sleep(t)
    \/ \E c \in Pids, ev \in OutputEvents : child_output(c, ev)
    \/ \E c \in Pids : child_exit(c)
    \/ \E c \in Pids : relay_recv(c)
    \/ \E c \in Pids : relay_emit(c)
    \/ \E c \in Pids : relay_clear(c)
    \/ hook_read
    \/ hook_term
    \/ hook_kill
    \/ hook_clear

Spec == Init /\ [][Next]_vars

\* A critical section of any other task, as the health-check loop sees it:
\* the relay stores a port (line 270) or clears the state (lines 289-290),
\* start stores a pid (line 248), stop clears the pid (line 341), the exit
\* hook clears the state (lines 407-408).  Any state may follow any state.
state_changed ==
    /\ Running
    /\ \E q \in Pids \cup {None}, p \in Ports \cup {None} :
          /\ [pid |-> q, port |-> p] # state
          /\ state' = [pid |-> q, port |-> p]
          /\ portLog' = [portLog EXCEPT !.last = PortWrite(0, 0, p), !.others = TRUE]
    /\ UNCHANGED <<nextPid, childVars, relayVars, threadVars, signals,
                   proberVars, hookVars>>

\* The setup task with its health-check loop, against every behaviour of the
\* shared state that the other tasks can produce.
ProbeNext ==
    \/ start_spawn(SetupTask)
    \/ start_register(SetupTask)
    \/ start_return(SetupTask)
    \/ health_read
    \/ health_get
    \/ state_changed

ProbeSpec == Init /\ [][ProbeNext]_vars

\* The first child and its relay task, against every behaviour of the shared
\* state that the other tasks can produce.
RelayNext ==
    \/ start_spawn(SetupTask)
    \/ start_register(SetupTask)
    \/ start_return(SetupTask)
    \/ \E c \in Pids, ev \in OutputEvents : child_output(c, ev)
    \/ \E c \in Pids : child_exit(c)
    \/ \E c \in Pids : relay_recv(c)
    \/ \E c \in Pids : relay_emit(c)
    \/ \E c \in Pids : relay_clear(c)
    \/ state_changed

RelaySpec == Init /\ [][RelayNext]_vars

\* The exit hook next to one child and its relay, every other task being
\* state_changed.
HookNext ==
    \/ start_spawn(SetupTask)
    \/ start_register(SetupTask)
    \/ start_return(SetupTask)
    \/ \E c \in Pids, ev \in OutputEvents : child_output(c, ev)
    \/ \E c \in Pids : child_exit(c)
    \/ \E c \in Pids : relay_recv(c)
    \/ \E c \in Pids : relay_emit(c)
    \/ \E c \in Pids : relay_clear(c)
    \/ state_changed
    \/ hook_read
    \/ hook_term
    \/ hook_kill
    \/ hook_clear

HookSpec == Init /\ [][HookNext]_vars

\* The commands (and the setup hook's start) alone: children neither print
\* nor exit by themselves, relays and the exit hook are state_changed.
CmdNext ==
    \/ \E t \in Threads : start_spawn(t)
    \/ \E t \in Threads : start_register(t)
    \/ \E t \in Threads : start_return(t)
    \/ \E t \in Threads, k \in Commands : invoke(t, k)
    \/ \E t \in Threads : stop_read(t)
    \/ \E t \in Threads : stop_kill(t)
    \/ \E t \in Threads : stop_clear(t)
    \/ \E t \in Threads : restart_sleep(t)
    \/ state_changed

CmdSpec == Init /\ [][CmdNext]_vars

\* ------------------------------------------------------------------ claims

\* C1: once the exit hook (kill_sidecar_sync) has completed, no child
\* process the supervisor spawned is still alive.
C1_NoChildOutlivesExitHook ==
    hpc = "done" => \A c \in Pids : alive[c] # "alive"

\* C2: at the moment a stop that found a pid returns success, state.pid and
\* state.port are both empty.
C2_StopLeavesPidAndPortEmpty ==
    [][\A t \in Threads :
          (pc[t] = "clear" /\ pc'[t] # "clear")
              => (state'.pid = None /\ state'.port = None)]_vars

\* The ports child c has announced on its stdout.
AnnouncedBy(c) ==
    {CapturedPort(from_utf8_lossy(rx[c][k].line)) :
        k \in {i \in 1..Len(rx[c]) : rx[c][i].type = "Stdout"}} \ {None}

\* C3: after a restart that found a running child and whose new launch
\* succeeded, once the old relay has processed every event of the old child,
\* the state holds the new child's pid and no port but one the new child
\* announced (the new child still running, nothing else started or exiting).
C3_RestartReflectsOnlyNewChild ==
    \A t \in Threads :
        ( /\ kind[t] = "restart"
          /\ result[t] = "Ok"
          /\ spid[t] # None
          /\ rpc[spid[t]] = "end"
          /\ alive[lpid[t]] = "alive"
          /\ nextPid = lpid[t] + 1
          /\ hpc = "idle" )
        => /\ state.pid = lpid[t]
           /\ state.port \in {None} \cup AnnouncedBy(lpid[t])

\* C4: in every reachable state, port is set only while pid is set.
C4_PortOnlyWhilePid ==
    state.port # None => state.pid # None

\* C5: state.pid is non-empty at the moment start_bun_sidecar_internal
\* returns Ok.
C5_PidSetWhenStartReturns ==
    [][\A t \in Threads :
          (pc[t] = "ret" /\ pc'[t] = "done") => state.pid # None]_vars

\* The value of a string of decimal digits.
RECURSIVE DecimalValue(_)
DecimalValue(s) ==
    IF s = <<>> THEN 0
    ELSE DecimalValue(SubSeq(s, 1, Len(s) - 1)) * 10 + DigitVal(s[Len(s)])

\* A line of the form PORT=<n>, n a decimal unsigned 16-bit integer.
IsPortLine(line) ==
    /\ Len(line) > 5
    /\ SubSeq(line, 1, 5) = PORT_PREFIX
    /\ \A i \in 6..Len(line) : IsDigit(line[i])
    /\ DecimalValue(SubSeq(line, 6, Len(line))) <= U16_MAX

PortLineValue(line) == DecimalValue(SubSeq(line, 6, Len(line)))

\* The k-th event of child c is a stdout line PORT=<n>.
AnnouncementAt(c, k) == rx[c][k].type = "Stdout" /\ IsPortLine(rx[c][k].line)

\* Neither a termination nor a stop (nor the exit hook) has happened so far,
\* and no other task has touched the state.
NoTerminationOrStop ==
    /\ \A c \in Pids : alive[c] # "dead"
    /\ \A t \in Threads : kind[t] \notin {"stop", "restart"}
    /\ hpc = "idle"
    /\ ~portLog.others

\* C6 as stated: once the relay has forwarded a line PORT=<n>, and before any
\* termination or stop, the state holds port = n.
C6_ReaderSeesAnnouncedPort ==
    \A c \in Pids : \A k \in 1..Len(rx[c]) :
        (AnnouncementAt(c, k) /\ Len(relayed[c]) >= k /\ NoTerminationOrStop)
            => state.port = PortLineValue(rx[c][k].line)

\* C6, amended: the relay emits one event per event it has handled; for a
\* stdout line PORT=<n> it is the output event with the original text, the
\* relay has stored n before emitting it, and the state holds port = n for as
\* long as nothing has written the port since.
C6_PortStoredBeforeAnnouncementEmitted ==
    \A c \in Pids :
        /\ Len(relayed[c]) = rcv[c] + (IF rpc[c] = "clear" THEN 1 ELSE 0)
        /\ \A k \in 1..Len(rx[c]) :
              (AnnouncementAt(c, k) /\ Len(relayed[c]) >= k)
                  => LET n == PortLineValue(rx[c][k].line)
                     IN  /\ relayed[c][k] =
                               Event("bun-sidecar-output", rx[c][k].line, None)
                         /\ PortWrite(c, k, n) \in portLog.writes
                         /\ portLog.last = PortWrite(c, k, n) => state.port = n

\* A line PORT=3000 has been forwarded, the relay's write of its port is the
\* last one and the state holds it, after another task has touched the state.
C6_Witness ==
    \E c \in Pids : \E k \in 1..Len(rx[c]) :
        /\ AnnouncementAt(c, k)
        /\ Len(relayed[c]) >= k
        /\ portLog.last = PortWrite(c, k, 3000)
        /\ portLog.others
        /\ state.port = 3000

\* C10: every successful start (setup, start command, second half of
\* restart) runs a health-check loop for the new child, the only source of
\* the readiness outcome events.
C10_EveryStartIsProbed ==
    \A t \in Threads :
        (kind[t] \in {"setup", "start", "restart"} /\ result[t] = "Ok")
            => (t = SetupTask /\ ppc # "off")

\* The readiness outcome events the setup task has emitted.
TerminalEvents ==
    SelectSeq(events[SetupTask],
              LAMBDA e : e.name \in {"sidecar-ready", "sidecar-error"})

\* C7: an attempt within the budget (the 30th included) that finds a port
\* and gets a success status ends the loop with sidecar-ready carrying that
\* port, and nothing else, however many attempts failed before.
C7_SuccessWithinBudgetEndsReady ==
    resp = "ok"
        => /\ ppc = "done"
           /\ attempts <= max_attempts
           /\ pport # None
           /\ events[SetupTask] = <<Event("sidecar-ready", <<>>, pport)>>

\* The first success status comes on the last attempt of the budget.
C7_Witness ==
    resp = "ok" /\ ppc = "done" /\ attempts = max_attempts

\* C8: when the loop never finds a port, it ends after exactly 30 attempts
\* with one sidecar-error and no sidecar-ready, the task ending normally.
C8_PortNeverAnnouncedTimesOut ==
    (ppc = "done" /\ resp = "none")
        => /\ attempts = max_attempts
           /\ events[SetupTask] = <<Event("sidecar-error", <<>>, None)>>

\* The loop is over without ever having seen a port.
C8_Witness ==
    ppc = "done" /\ resp = "none" /\ state.port = None /\ Len(TerminalEvents) = 1

\* What is left of the loop: it grows with every step of the loop and is
\* bounded, so the loop ends.
ProbeMeasure ==
    IF ppc = "done" THEN 2 * max_attempts + 1
    ELSE 2 * attempts - (IF ppc = "get" THEN 1 ELSE 0)

HookSignals(c) == SelectSeq(signals[c], LAMBDA s : s.by = HookTask)

SignalNames(seq) == [i \in DOMAIN seq |-> seq[i].sig]

SignalsBy(t, c) == SelectSeq(signals[c], LAMBDA s : s.by = t)

\* C12: a stop that reads no recorded pid changes neither the shared state
\* nor any process, returns Ok("No sidecar running"), and has sent no signal
\* to any pid.
C12_StopWithoutPidIsNoOp ==
    /\ [][\A t \in Threads :
            (kind[t] = "stop" /\ pc[t] = "read" /\ pc'[t] # "read"
                /\ state.pid = None)
            => /\ result'[t] = "OkNone"
               /\ pc'[t] = "done"
               /\ state' = state
               /\ signals' = signals
               /\ alive' = alive]_vars
    /\ [](\A t \in Threads :
            (kind[t] = "stop" /\ result[t] = "OkNone")
            => \A c \in Pids : SignalsBy(t, c) = <<>>)

\* A stop has returned "No sidecar running"; the port a child left behind is
\* still in the state and a child is alive.
C12_Witness ==
    \E t \in Threads :
        /\ kind[t] = "stop"
        /\ result[t] = "OkNone"
        /\ state.pid = None
        /\ state.port # None
        /\ \E c \in Pids : alive[c] = "alive"

\* ------------------------------------------------------------------ C13

\* Thread t is a restart whose stop found a pid recorded.
RestartsChild(t) == kind[t] = "restart" /\ spid[t] # None

\* C13: a restart that found a child recorded sends exactly one signal, to
\* the old pid, and nothing to any other pid; it has spawned nothing until
\* the signal is sent and the old pid is cleared (stop, sleep, then start),
\* and when it has spawned a child that signal has been sent.
C13_RestartSignalsOnceBeforeSpawn ==
    /\ [](\A t \in Threads : RestartsChild(t) =>
            /\ \A c \in Pids \ {spid[t]} : SignalsBy(t, c) = <<>>
            /\ pc[t] \in {"read", "kill"} =>
                    SignalsBy(t, spid[t]) = <<>> /\ lpid[t] = None
            /\ pc[t] \in {"clear", "sleep", "spawn"} =>
                    /\ SignalNames(SignalsBy(t, spid[t])) = <<"KILL">>
                    /\ lpid[t] = None
            /\ lpid[t] # None =>
                    /\ SignalNames(SignalsBy(t, spid[t])) = <<"KILL">>
                    /\ pc[t] \in {"register", "ret", "done"})
    /\ [][\A t \in Threads :
            (RestartsChild(t) /\ pc[t] = "clear" /\ pc'[t] # "clear")
            => (state'.pid = None /\ pc'[t] = "sleep" /\ alive' = alive)]_vars
    /\ [][\A t \in Threads :
            (kind[t] = "restart" /\ lpid[t] = None /\ lpid'[t] # None)
            => (pc[t] = "spawn" /\ alive[lpid'[t]] = "none"
                /\ alive'[lpid'[t]] = "alive")]_vars

\* A restart has returned: the old child died of its one signal and the new
\* child is alive.
C13_Witness ==
    \E t \in Threads :
        /\ RestartsChild(t)
        /\ result[t] = "Ok"
        /\ SignalsBy(t, spid[t])[1].delivered
        /\ alive[spid[t]] = "dead"
        /\ alive[lpid[t]] = "alive"

\* ------------------------------------------------------------------ C14

\* The health-check loop ends in this step with the failure event.
LoopGivesUp ==
    /\ ppc \in {"loop", "get"}
    /\ ppc' = "done"
    /\ events'[SetupTask] # <<>>
    /\ events'[SetupTask][Len(events'[SetupTask])].name = "sidecar-error"

\* C14: the step in which the health-check loop gives up (budget spent with
\* no port, or with the last GET failing) sends no signal, leaves every
\* process and the recorded pid and port as they are, and emits exactly the
\* failure event.
C14_TimeoutLeavesChildAlone ==
    [][LoopGivesUp =>
        /\ state' = state
        /\ signals' = signals
        /\ alive' = alive
        /\ rx' = rx
        /\ events' = [events EXCEPT ![SetupTask] =
                         Append(@, Event("sidecar-error", <<>>, None))]]_vars

\* The loop gave up on a failing health check of an announced port; the child
\* is alive, still recorded with its port, and was never signalled.
C14_Witness ==
    /\ ppc = "done"
    /\ attempts = max_attempts
    /\ resp = "fail"
    /\ events[SetupTask] = <<Event("sidecar-error", <<>>, None)>>
    /\ state.pid # None
    /\ alive[state.pid] = "alive"
    /\ state.port = pport
    /\ pport # None
    /\ \A c \in Pids : signals[c] = <<>>

\* ------------------------------------------------------------------ C15

\* Thread t leaves start_bun_sidecar_internal in this step without a child.
StartFails(t) == pc[t] = "spawn" /\ pc'[t] = "done"

\* C15: a start that fails (a directory or the spawn) returns Err (the setup
\* hook emits the failure event); the failing step writes neither pid nor
\* port, spawns no process and starts no relay; the process keeps running:
\* every command not yet invoked can still be invoked.
C15_FailedStartWritesNothing ==
    /\ [][\A t \in Threads : StartFails(t) =>
            /\ result'[t] = "Err"
            /\ lpid'[t] = None
            /\ state' = state
            /\ alive' = alive
            /\ nextPid' = nextPid
            /\ relayVars' = relayVars
            /\ hookVars' = hookVars
            /\ events'[t] = IF kind[t] = "setup"
                            THEN Append(events[t],
                                        Event("sidecar-error", <<>>, None))
                            ELSE events[t]]_vars
    /\ [](\A t \in Threads :
            (pc[t] = "done" /\ result[t] = "Err" /\ kind[t] \in {"setup", "start"})
            => /\ lpid[t] = None
               /\ (hpc = "idle" =>
                    \A u \in Threads \ {SetupTask} :
                        pc[u] = "idle" => ENABLED invoke(u, "start")))

\* The setup hook's start failed, nothing was recorded for it, and a start
\* invoked later has succeeded.
C15_Witness ==
    /\ result[SetupTask] = "Err"
    /\ rpc = [c \in Pids |-> IF c = 1 THEN "recv" ELSE "none"]
    /\ \E t \in Threads :
          /\ kind[t] = "start"
          /\ result[t] = "Ok"
          /\ lpid[t] = 1
          /\ state.pid = 1

\* ------------------------------------------------------------------ C16

\* C16: a stop that found a pid and whose signal reached no process does not
\* return Ok("Sidecar stopped"): every stop that returned it delivered its
\* signal.
C16_UndeliveredSignalFailsStop ==
    \A t \in Threads :
        (kind[t] = "stop" /\ spid[t] # None /\ result[t] = "Ok")
        => \E i \in DOMAIN SignalsBy(t, spid[t]) :
              SignalsBy(t, spid[t])[i].delivered

\* ------------------------------------------------------------------ C17

\* C17: whenever no pid is recorded, get_sidecar_port returns None.
C17_PortReturnedOnlyWhileRunning ==
    state.pid = None => get_sidecar_port = None

\* ------------------------------------------------------------------ C18

\* The relay of child c has emitted the termination event.
ExitedEmitted(c) ==
    \E i \in DOMAIN relayed[c] : relayed[c][i].name = "bun-sidecar-exited"

\* C18: once the relay of a child has emitted the termination event, the
\* state holds neither that child's pid nor a port that child announced.
C18_ClearedBeforeExitedEvent ==
    \A c \in Pids :
        ExitedEmitted(c)
        => /\ state.pid # c
           /\ ~(portLog.last.by = c /\ portLog.last.port # None)

\* ------------------------------------------------------------------ C19

\* A stop (or the stop of a restart) or the exit hook reads the recorded pid
\* in this step.
PidIsRead ==
    \/ hpc = "idle" /\ hpc' # "idle"
    \/ \E t \in Threads : pc[t] = "read" /\ pc'[t] # "read"

\* C19: whenever a stop or the exit hook reads the state while a spawned
\* child is alive, it finds that child's pid recorded.
C19_ReaderFindsPidOfAliveChild ==
    [][PidIsRead => \A c \in Pids : alive[c] = "alive" => state.pid = c]_vars

\* ------------------------------------------------------------------ C20

\* A line PORT=<n>, n a decimal unsigned 16-bit integer, with nothing but
\* white space around n.
MatchesPortForm(line) ==
    /\ Len(line) > 5
    /\ SubSeq(line, 1, 5) = PORT_PREFIX
    /\ \E a \in 6..Len(line), b \in 6..Len(line) :
          /\ a <= b
          /\ \A i \in 6..(a - 1) : IsWhitespace(line[i])
          /\ \A i \in (b + 1)..Len(line) : IsWhitespace(line[i])
          /\ \A i \in a..b : IsDigit(line[i])
          /\ DecimalValue(SubSeq(line, a, b)) <= U16_MAX

\* The event the relay owes to a CommandEvent.
ForwardOf(ev) ==
    CASE ev.type = "Stdout" ->
            Event("bun-sidecar-output", from_utf8_lossy(ev.line), None)
      [] ev.type = "Stderr" ->
            Event("bun-sidecar-error", from_utf8_lossy(ev.line), None)
      [] OTHER -> Event("bun-sidecar-exited", <<>>, None)

\* The relay of c takes up the next event of its channel in this step.
RelayHandles(c) ==
    /\ rpc[c] = "recv"
    /\ rcv[c] < Len(rx[c])
    /\ (rcv'[c] # rcv[c] \/ rpc'[c] # rpc[c])

AliveChildren == {c \in Pids : alive[c] = "alive"}

\* C21: at most one child spawned by the supervisor is alive at any time; a
\* start issued while an earlier child is alive does not leave that child
\* alive next to the new one.
C21_AtMostOneChildAlive == Cardinality(AliveChildren) <= 1

\* ------------------------------------------------------------------ C22

\* C22: whenever the state holds a pid and a port, the port is one that the
\* relay stored from a line of the child with that pid.
C22_PortBelongsToRecordedChild ==
    (state.pid # None /\ state.port # None)
    => \E w \in portLog.writes : w.by = state.pid /\ w.port = state.port

====
